---- MODULE Spec2Model ----
(***************************************************************************)
(* A model of dbt_log_status.py: the line filter, the line parser (the     *)
(* regular expressions of DBTModelStatus and its getters), the             *)
(* consolidator and the ranker.                                            *)
(*                                                                         *)
(* A line of text is a sequence of characters; a character is a one-letter *)
(* string, except "ESC" (U+001B), "CSI" (U+009B) and "GRAVE" (U+0060),     *)
(* which TLA+ strings cannot spell.  Python's re module is modelled by a   *)
(* backtracking matcher (greedy stars, ordered alternation, leftmost match *)
(* for re.search), and each pattern of the source is transcribed item by   *)
(* item.                                                                   *)
(***************************************************************************)
EXTENDS Integers, Sequences, FiniteSets, TLC

VARIABLES
    pc,                  \* position of the run: which call has returned
    file_lines,          \* the lines of the log file, as open(file_name) yields them
    lines,               \* read_log_models_lines_only: every line, escapes removed
    printable_file,      \* the content written to 'printable_' + file_name
    printable_lines,     \* the model lines handed to read_log_as_dbt_models_status
    dbt_models_status,   \* the list of DBTModelStatus objects: [_raw, _status]
    consolidated,        \* consolidated_dbt_models_status: the dict being built
    idx,                 \* consolidate_dbt_models_status: index of the next object
    top_n,               \* the count given to top_n_runtime_dbt_models_status
    ranked,              \* the list top_n_runtime_dbt_models_status returned
    refiltered,          \* the filter's result on a file holding its own output
    got                  \* the four getters' results for one object

vars == <<pc, file_lines, lines, printable_file, printable_lines, dbt_models_status,
          consolidated, idx, top_n, ranked, refiltered, got>>

----------------------------------------------------------------------------
(* Characters and character classes                                        *)

\* The printable ASCII characters in code-point order, U+0020 .. U+007E.
Printable ==
    << " ", "!", "\"", "#", "$", "%", "&", "'", "(", ")", "*", "+", ",", "-", ".", "/",
       "0", "1", "2", "3", "4", "5", "6", "7", "8", "9", ":", ";", "<", "=", ">", "?",
       "@", "A", "B", "C", "D", "E", "F", "G", "H", "I", "J", "K", "L", "M", "N", "O",
       "P", "Q", "R", "S", "T", "U", "V", "W", "X", "Y", "Z", "[", "\\", "]", "^", "_",
       "GRAVE", "a", "b", "c", "d", "e", "f", "g", "h", "i", "j", "k", "l", "m", "n", "o",
       "p", "q", "r", "s", "t", "u", "v", "w", "x", "y", "z", "{", "|", "}", "~" >>

Alphabet == {Printable[i] : i \in 1..Len(Printable)} \cup {"\t", "\n", "ESC", "CSI"}

\* The code point of a character.
Ord(c) ==
    CASE c = "\t"  -> 9
      [] c = "\n"  -> 10
      [] c = "ESC" -> 27
      [] c = "CSI" -> 155
      [] OTHER     -> 31 + (CHOOSE i \in 1..Len(Printable) : Printable[i] = c)

\* A character range [lo-hi] of a pattern.
Range(lo, hi) == {c \in Alphabet : Ord(lo) <= Ord(c) /\ Ord(c) <= Ord(hi)}

Digit == Range("0", "9")                  \* \d
Space == {" ", "\t", "\n"}                \* \s (the white space of Alphabet)
NumChar == Digit \cup {"."}               \* [0-9.]
ModelChar == {"."} \cup Range("a", "z") \cup {"_"} \cup Digit \cup {" "}   \* [.a-z_0-9 ]
C1Control == {c \in Alphabet : 128 <= Ord(c) /\ Ord(c) <= 159}             \* [\x80-\x9F]

----------------------------------------------------------------------------
(* Patterns: a pattern is a sequence of items; an item matches one         *)
(* character of a class, a greedy run of a class, or the first of several  *)
(* alternatives (each a sequence of classes) that lets the rest match.     *)

One(cls)   == [kind |-> "one",  cls |-> cls, alts |-> <<>>]
Star(cls)  == [kind |-> "star", cls |-> cls, alts |-> <<>>]
Alt(alts)  == [kind |-> "alt",  cls |-> {},  alts |-> alts]
Ch(c)      == One({c})

\* The keywords, as sequences of one-character classes.
KwSTART == << {"S"}, {"T"}, {"A"}, {"R"}, {"T"} >>
KwERROR == << {"E"}, {"R"}, {"R"}, {"O"}, {"R"} >>
KwOK    == << {"O"}, {"K"} >>

\* Does the sequence of classes cs match s at position i?
ClassesAt(cs, s, i) ==
    /\ i + Len(cs) - 1 <= Len(s)
    /\ \A j \in 1..Len(cs) : s[i + j - 1] \in cs[j]

\* The length of the longest run of characters of cls in s from position i.
RunLen(s, i, cls) ==
    LET stops == {j \in i..(Len(s) + 1) : j > Len(s) \/ s[j] \notin cls}
    IN  (CHOOSE j \in stops : \A k \in stops : j <= k) - i

NoMatch == <<>>

\* re's backtracking match of items k.. of pattern re against s at position i:
\* NoMatch, or the positions where each of the items k.. starts, then the end.
RECURSIVE MatchItems(_, _, _, _), TryStar(_, _, _, _, _), TryAlt(_, _, _, _, _)
MatchItems(re, k, s, i) ==
    IF k > Len(re) THEN <<i>>
    ELSE CASE re[k].kind = "one" ->
                IF i <= Len(s) /\ s[i] \in re[k].cls
                THEN LET r == MatchItems(re, k + 1, s, i + 1)
                     IN  IF r = NoMatch THEN NoMatch ELSE <<i>> \o r
                ELSE NoMatch
           [] re[k].kind = "star" -> TryStar(re, k, s, i, RunLen(s, i, re[k].cls))
           [] re[k].kind = "alt"  -> TryAlt(re, k, s, i, 1)

\* a greedy star: the longest run first, then shorter ones
TryStar(re, k, s, i, n) ==
    LET r == MatchItems(re, k + 1, s, i + n)
    IN  IF r # NoMatch THEN <<i>> \o r
        ELSE IF n = 0 THEN NoMatch
        ELSE TryStar(re, k, s, i, n - 1)

\* an alternation: the alternatives in the order written
TryAlt(re, k, s, i, a) ==
    IF a > Len(re[k].alts) THEN NoMatch
    ELSE LET r == IF ClassesAt(re[k].alts[a], s, i)
                  THEN MatchItems(re, k + 1, s, i + Len(re[k].alts[a]))
                  ELSE NoMatch
         IN  IF r # NoMatch THEN <<i>> \o r ELSE TryAlt(re, k, s, i, a + 1)

\* re.match: at the start of the string only
re_match(re, s) == MatchItems(re, 1, s, 1)

\* re.search: the match at the leftmost position that has one
re_search(re, s) ==
    LET starts == {i \in 1..(Len(s) + 1) : MatchItems(re, 1, s, i) # NoMatch}
    IN  IF starts = {} THEN NoMatch
        ELSE MatchItems(re, 1, s, CHOOSE i \in starts : \A j \in starts : i <= j)

\* The text a match m gives to the group made of items a..b of the pattern.
Group(s, m, a, b) == SubSeq(s, m[a], m[b + 1] - 1)

----------------------------------------------------------------------------
(* The patterns of the source                                              *)

\* \d*:\d*:\d*
TimeItems == << Star(Digit), Ch(":"), Star(Digit), Ch(":"), Star(Digit) >>
\* \d*\s(of)\s*\d*
NofMItems == << Star(Digit), One(Space), Ch("o"), Ch("f"), Star(Space), Star(Digit) >>

\* (\d*:\d*:\d*\s*\d*\sof\s*\d*)\s*(START|ERROR|OK)         group 2: item 14
StatusPattern ==
    TimeItems \o << Star(Space) >> \o NofMItems
        \o << Star(Space), Alt(<< KwSTART, KwERROR, KwOK >>) >>

\* (\sin\s[0-9.]*s[]])                                      group 1: items 1..7
RuntimePattern ==
    << One(Space), Ch("i"), Ch("n"), One(Space), Star(NumChar), Ch("s"), Ch("]") >>

\* ([0-9.]*s)                                               group 1: items 1..2
SecsPattern == << Star(NumChar), Ch("s") >>

\* (\d*:\d*:\d*)\s*(\d*\s(of)\s*\d*)                        group 2: items 7..12
IdPattern == TimeItems \o << Star(Space) >> \o NofMItems

\* (\d*:\d*:\d*\s*\d*\sof\s*\d*\s*)(OK|START|ERROR)\s([.a-z_0-9 ]*)   group 3: item 16
ModelPattern ==
    TimeItems \o << Star(Space) >> \o NofMItems
        \o << Star(Space), Alt(<< KwOK, KwSTART, KwERROR >>), One(Space), Star(ModelChar) >>

\* (?:\x1B[@-_]|[\x80-\x9F])[0-?]*[ -/]*[@-~]
AnsiPattern ==
    << Alt(<< << {"ESC"}, Range("@", "_") >>, << C1Control >> >>),
       Star(Range("0", "?")), Star(Range(" ", "/")), One(Range("@", "~")) >>

----------------------------------------------------------------------------
(* Values a call gives back: an object, None, or an exception              *)

None == [tag |-> "None"]
ValueError == [tag |-> "ValueError"]
Val(x) == [tag |-> "val", v |-> x]

\* str.rstrip(chars) and str.lstrip(chars)
RECURSIVE rstrip(_, _)
rstrip(s, chars) ==
    IF Len(s) > 0 /\ s[Len(s)] \in chars THEN rstrip(SubSeq(s, 1, Len(s) - 1), chars) ELSE s

RECURSIVE lstrip(_, _)
lstrip(s, chars) ==
    IF Len(s) > 0 /\ s[1] \in chars THEN lstrip(SubSeq(s, 2, Len(s)), chars) ELSE s

\* str.removesuffix('.')
removesuffix_dot(s) ==
    IF Len(s) > 0 /\ s[Len(s)] = "." THEN SubSeq(s, 1, Len(s) - 1) ELSE s

\* str.index(' of '): the first position (from 0) of the substring, 0 - 1 when there is none
index_of(s) ==
    LET hits == {i \in 1..Len(s) : ClassesAt(<< {" "}, {"o"}, {"f"}, {" "} >>, s, i)}
    IN  IF hits = {} THEN 0 - 1
        ELSE (CHOOSE i \in hits : \A j \in hits : i <= j) - 1

\* The number a string of decimal digits writes.
RECURSIVE DigitsValue(_)
DigitsValue(s) ==
    IF Len(s) = 0 THEN 0
    ELSE 10 * DigitsValue(SubSeq(s, 1, Len(s) - 1)) + (Ord(s[Len(s)]) - Ord("0"))

\* int(txt), for a text of digits: the empty text is a ValueError.
int(txt) ==
    IF Len(txt) > 0 /\ \A i \in 1..Len(txt) : txt[i] \in Digit
    THEN Val(DigitsValue(txt))
    ELSE ValueError

\* A decimal number m / 10^e without trailing zeros in its fraction, so that equal
\* numbers are equal values.
RECURSIVE Normal(_, _)
Normal(m, e) ==
    IF e > 0 /\ m % 10 = 0 THEN Normal(m \div 10, e - 1) ELSE [m |-> m, e |-> e]

\* float(txt), for a text of digits and periods: one period at most and one digit at
\* least, otherwise a ValueError.
float(txt) ==
    LET dots   == {i \in 1..Len(txt) : txt[i] = "."}
        digits == SelectSeq(txt, LAMBDA c : c \in Digit)
    IN  IF /\ \A i \in 1..Len(txt) : txt[i] \in NumChar
           /\ Cardinality(dots) <= 1
           /\ Len(digits) > 0
        THEN Val(Normal(DigitsValue(digits),
                        IF dots = {} THEN 0 ELSE Len(txt) - (CHOOSE i \in dots : TRUE)))
        ELSE ValueError

RECURSIVE Pow10(_)
Pow10(n) == IF n = 0 THEN 1 ELSE 10 * Pow10(n - 1)

\* a < b and a <= b on numbers m / 10^e
NumLess(a, b) == a.m * Pow10(b.e) < b.m * Pow10(a.e)
NumLeq(a, b) == a.m * Pow10(b.e) <= b.m * Pow10(a.e)
Zero == [m |-> 0, e |-> 0]

----------------------------------------------------------------------------
(* class DBTModelStatus                                                    *)

\* The constructor with re.match in place of re.search: the time must begin the
\* line.
DBTModelStatus_match(raw) ==
    LET res == re_match(StatusPattern, raw)
        kw  == Group(raw, res, 14, 14)
    IN  [_raw    |-> raw,
         _status |-> IF res = NoMatch THEN "UNKNOWN"
                     ELSE IF kw = << "S", "T", "A", "R", "T" >> THEN "STARTED"
                     ELSE IF kw = << "O", "K" >> THEN "PASS"
                     ELSE IF kw = << "E", "R", "R", "O", "R" >> THEN "ERROR"
                     ELSE "UNKNOWN"]

\* __init__: the object made of a raw line
DBTModelStatus(raw) ==
    LET res == re_search(StatusPattern, raw)
        kw  == Group(raw, res, 14, 14)
    IN  [_raw    |-> raw,
         _status |-> IF res = NoMatch THEN "UNKNOWN"
                     ELSE IF kw = << "S", "T", "A", "R", "T" >> THEN "STARTED"
                     ELSE IF kw = << "O", "K" >> THEN "PASS"
                     ELSE IF kw = << "E", "R", "R", "O", "R" >> THEN "ERROR"
                     ELSE "UNKNOWN"]

get_status(self) == self._status

get_runtime(self) ==
    LET res == re_search(RuntimePattern, self._raw)
        in_sec_str == << "[" >> \o Group(self._raw, res, 1, 7)
        res_secs == re_search(SecsPattern, in_sec_str)
        runtime_txt == rstrip(Group(in_sec_str, res_secs, 1, 2), {"s"})
    IN  IF res = NoMatch THEN None ELSE float(runtime_txt)

get_id(self) ==
    LET res == re_search(IdPattern, self._raw)
        d_of_d_txt == Group(self._raw, res, 7, 12)
        at == index_of(d_of_d_txt)
        padded == SubSeq(d_of_d_txt, 1, at)
    IN  IF res = NoMatch THEN None
        ELSE IF at < 0 THEN ValueError
        ELSE int(rstrip(lstrip(padded, Space), Space))

get_model(self) ==
    LET res == re_search(ModelPattern, self._raw)
    IN  IF res = NoMatch THEN None
        ELSE Val(removesuffix_dot(Group(self._raw, res, 16, 16)))

\* The test with re.search in place of re.match: the shape anywhere in the line.
is_a_model_line_search(txt) == re_search(IdPattern, txt) # NoMatch

is_a_model_line(txt) == re_match(IdPattern, txt) # NoMatch

\* escape_ansi: re.sub of AnsiPattern by '', the matches taken from left to right.
\* From position i: the text up to the next match, then the text after that match.
RECURSIVE EscapeFrom(_, _)
EscapeFrom(line, i) ==
    LET starts == {j \in i..Len(line) : MatchItems(AnsiPattern, 1, line, j) # NoMatch}
        first  == CHOOSE j \in starts : \A k \in starts : j <= k
        m      == MatchItems(AnsiPattern, 1, line, first)
    IN  IF starts = {} THEN SubSeq(line, i, Len(line))
        ELSE SubSeq(line, i, first - 1) \o EscapeFrom(line, m[Len(m)])

escape_ansi(line) == EscapeFrom(line, 1)

----------------------------------------------------------------------------
(* The log lines the runs read                                             *)

\* 05:56:24  5 of 135 START table model schema.some_model ........ [RUN]\n
StartLine ==
    <<"0","5",":","5","6",":","2","4"," "," ","5"," ","o","f"," ","1","3","5"," ","S","T",
      "A","R","T"," ","t","a","b","l","e"," ","m","o","d","e","l"," ","s","c","h","e","m",
      "a",".","s","o","m","e","_","m","o","d","e","l"," ",".",".",".",".",".",".",".",".",
      " ","[","R","U","N","]","\n">>

\* 05:56:36  5 of 135 OK created table model schema.some_model ... [SELECT in 11.69s]\n
OkLine ==
    <<"0","5",":","5","6",":","3","6"," "," ","5"," ","o","f"," ","1","3","5"," ","O","K",
      " ","c","r","e","a","t","e","d"," ","t","a","b","l","e"," ","m","o","d","e","l"," ",
      "s","c","h","e","m","a",".","s","o","m","e","_","m","o","d","e","l"," ",".",".",".",
      " ","[","S","E","L","E","C","T"," ","i","n"," ","1","1",".","6","9","s","]","\n">>

\* 05:56:36  5 of 135 ERROR creating table model schema.some_model ... [ERROR in 20.0s]\n
ErrorLine ==
    <<"0","5",":","5","6",":","3","6"," "," ","5"," ","o","f"," ","1","3","5"," ","E","R",
      "R","O","R"," ","c","r","e","a","t","i","n","g"," ","t","a","b","l","e"," ","m","o",
      "d","e","l"," ","s","c","h","e","m","a",".","s","o","m","e","_","m","o","d","e","l",
      " ",".",".","."," ","[","E","R","R","O","R"," ","i","n"," ","2","0",".","0","s","]",
      "\n">>

\* 05:56:25  7 of 135 START view model s.b. [RUN]\n
StartLine7 ==
    <<"0","5",":","5","6",":","2","5"," "," ","7"," ","o","f"," ","1","3","5"," ","S","T",
      "A","R","T"," ","v","i","e","w"," ","m","o","d","e","l"," ","s",".","b","."," ","[",
      "R","U","N","]","\n">>

\* 05:56:37  7 of 135 OK created view model s.b [CREATE VIEW in 11.690s]\n
OkLine7 ==
    <<"0","5",":","5","6",":","3","7"," "," ","7"," ","o","f"," ","1","3","5"," ","O","K",
      " ","c","r","e","a","t","e","d"," ","v","i","e","w"," ","m","o","d","e","l"," ","s",
      ".","b"," ","[","C","R","E","A","T","E"," ","V","I","E","W"," ","i","n"," ","1","1",
      ".","6","9","0","s","]","\n">>

\* 05:56:38  12 of 135 SKIP relation s.c [SKIP]\n
SkipLine12 ==
    <<"0","5",":","5","6",":","3","8"," "," ","1","2"," ","o","f"," ","1","3","5"," ","S",
      "K","I","P"," ","r","e","l","a","t","i","o","n"," ","s",".","c"," ","[","S","K","I",
      "P","]","\n">>

\* 05:56:39  12 of 135 OK created s.c [<ESC>[32mOK in 5s<ESC>[0m]\n
ColourLine12 ==
    <<"0","5",":","5","6",":","3","9"," "," ","1","2"," ","o","f"," ","1","3","5"," ","O",
      "K"," ","c","r","e","a","t","e","d"," ","s",".","c"," ","[","ESC","[","3","2","m","O",
      "K"," ","i","n"," ","5","s","ESC","[","0","m","]","\n">>

\* Running with dbt=1.0.4\n
BannerLine ==
    <<"R","u","n","n","i","n","g"," ","w","i","t","h"," ","d","b","t","=","1",".","0",".",
      "4","\n">>

\* 05:56:40   of 135 ERROR x\n
NoIdLine ==
    <<"0","5",":","5","6",":","4","0"," "," "," ","o","f"," ","1","3","5"," ","E","R","R",
      "O","R"," ","x","\n">>

\* 05:56:41  0 of 135 OK created m [x in .s]\n
BadRuntimeLine ==
    <<"0","5",":","5","6",":","4","1"," "," ","0"," ","o","f"," ","1","3","5"," ","O","K",
      " ","c","r","e","a","t","e","d"," ","m"," ","[","x"," ","i","n"," ",".","s","]","\n">>


\* The lines a log file of the runs is made of.
LogLines ==
    { StartLine, OkLine, ErrorLine, StartLine7, OkLine7, SkipLine12, ColourLine12,
      BannerLine, NoIdLine, BadRuntimeLine }

\* 05:56:39  12 of 135 OK created s.c [OK in 5s]\n
ColourLine12Escaped ==
    <<"0","5",":","5","6",":","3","9"," "," ","1","2"," ","o","f"," ","1","3","5"," ","O",
      "K"," ","c","r","e","a","t","e","d"," ","s",".","c"," ","[","O","K"," ","i","n"," ",
      "5","s","]","\n">>


\* Lines for the line filter.

\* <ESC>[0m05:56:24  5 of 135 START m [RUN]<ESC>[0m\n
WrappedLine ==
    <<"ESC","[","0","m","0","5",":","5","6",":","2","4"," "," ","5"," ","o","f"," ","1","3",
      "5"," ","S","T","A","R","T"," ","m"," ","[","R","U","N","]","ESC","[","0","m","\n">>

\* ::\tof\n
EmptyFieldsLine ==
    <<":",":","\t","o","f","\n">>

\* 123:4:5  of 7 OK\n
LongHourLine ==
    <<"1","2","3",":","4",":","5"," "," ","o","f"," ","7"," ","O","K","\n">>

\* 05:56:24  5  of 135 OK\n
TwoSpacesLine ==
    <<"0","5",":","5","6",":","2","4"," "," ","5"," "," ","o","f"," ","1","3","5"," ","O",
      "K","\n">>

\* x 05:56:24  5 of 135 OK\n
PrefixedLine ==
    <<"x"," ","0","5",":","5","6",":","2","4"," "," ","5"," ","o","f"," ","1","3","5"," ",
      "O","K","\n">>

\* 05:56:24  5 of 135 OK <ESC>[<ESC>[mm\n
NestedEscapeLine ==
    <<"0","5",":","5","6",":","2","4"," "," ","5"," ","o","f"," ","1","3","5"," ","O","K",
      " ","ESC","[","ESC","[","m","m","\n">>

\* <CSI>0m1:2:3 4 of 5\n
CsiLine ==
    <<"CSI","0","m","1",":","2",":","3"," ","4"," ","o","f"," ","5","\n">>

\* 05:56:24  5of 135\n
NoSpaceLine ==
    <<"0","5",":","5","6",":","2","4"," "," ","5","o","f"," ","1","3","5","\n">>

\* 05:56 5 of 135 OK\n
OneColonLine ==
    <<"0","5",":","5","6"," ","5"," ","o","f"," ","1","3","5"," ","O","K","\n">>

\* 05:56:24 5 of\n
NoTotalLine ==
    <<"0","5",":","5","6",":","2","4"," ","5"," ","o","f","\n">>

\*  05:56:24  5 of 135 OK\n
IndentedLine ==
    <<" ","0","5",":","5","6",":","2","4"," "," ","5"," ","o","f"," ","1","3","5"," ","O",
      "K","\n">>

\* 05:56:24\t\t5\tof\t135 FOO\n
TabsLine ==
    <<"0","5",":","5","6",":","2","4","\t","\t","5","\t","o","f","\t","1","3","5"," ","F",
      "O","O","\n">>

FilterLines ==
    { OkLine, BannerLine, WrappedLine, EmptyFieldsLine, LongHourLine, TwoSpacesLine,
      PrefixedLine, NestedEscapeLine, CsiLine, NoSpaceLine, OneColonLine,
      NoTotalLine, IndentedLine, TabsLine }


\* The same lines with their escape sequences removed.

\* 05:56:24  5 of 135 START m [RUN]\n
WrappedLineEscaped ==
    <<"0","5",":","5","6",":","2","4"," "," ","5"," ","o","f"," ","1","3","5"," ","S","T",
      "A","R","T"," ","m"," ","[","R","U","N","]","\n">>

\* 05:56:24  5 of 135 OK <ESC>[m\n
NestedEscapeLineEscaped ==
    <<"0","5",":","5","6",":","2","4"," "," ","5"," ","o","f"," ","1","3","5"," ","O","K",
      " ","ESC","[","m","\n">>

\* 05:56:24  5 of 135 OK \n
NestedEscapeLineEscapedTwice ==
    <<"0","5",":","5","6",":","2","4"," "," ","5"," ","o","f"," ","1","3","5"," ","O","K",
      " ","\n">>

\* 1:2:3 4 of 5\n
CsiLineEscaped ==
    <<"1",":","2",":","3"," ","4"," ","o","f"," ","5","\n">>

\* Lines for the line parser: every way of putting these pieces one after the other.

\* what comes before the time
Prefixes ==
    {
      \* (nothing)
      <<>>,
      \* x 
      <<"x"," ">>
    }

\* the time
Times ==
    {
      \* 05:56:24
      <<"0","5",":","5","6",":","2","4">>,
      \* ::
      <<":",":">>
    }

\* between the time and N
Gaps ==
    {
      \*  
      <<" ">>,
      \* (nothing)
      <<>>
    }

\* N
Ns ==
    {
      \* (nothing)
      <<>>,
      \* 5
      <<"5">>
    }

\* of
Ofs ==
    {
      \*  of 
      <<" ","o","f"," ">>,
      \* \tof 
      <<"\t","o","f"," ">>,
      \*  of
      <<" ","o","f">>
    }

\* M
Ms ==
    {
      \* (nothing)
      <<>>,
      \* 135
      <<"1","3","5">>
    }

\* between M and the keyword
KeywordGaps ==
    {
      \* (nothing)
      <<>>,
      \*  
      <<" ">>
    }

\* the keyword, or another word, or none
Keywords ==
    {
      \* START
      <<"S","T","A","R","T">>,
      \* OK
      <<"O","K">>,
      \* ERROR
      <<"E","R","R","O","R">>,
      \* OKAY
      <<"O","K","A","Y">>,
      \* (nothing)
      <<>>
    }

\* the rest of the line
Tails ==
    {
      \* \n
      <<"\n">>,
      \*  m.\n
      <<" ","m",".","\n">>,
      \*  a.b [S in 1.5s]\n
      <<" ","a",".","b"," ","[","S"," ","i","n"," ","1",".","5","s","]","\n">>,
      \*  x [ in .s]\n
      <<" ","x"," ","["," ","i","n"," ",".","s","]","\n">>,
      \*  SKIP START 1:2:3 4 of 5 ERROR [RUN]\n
      <<" ","S","K","I","P"," ","S","T","A","R","T"," ","1",":","2",":","3"," ","4"," ","o",
        "f"," ","5"," ","E","R","R","O","R"," ","[","R","U","N","]","\n">>
    }

\* 05:56:24  5 of 135 START table model schema.some_model ........ [RUN]
ExampleLine ==
    <<"0","5",":","5","6",":","2","4"," "," ","5"," ","o","f"," ","1","3","5"," ","S","T",
      "A","R","T"," ","t","a","b","l","e"," ","m","o","d","e","l"," ","s","c","h","e","m",
      "a",".","s","o","m","e","_","m","o","d","e","l"," ",".",".",".",".",".",".",".",".",
      " ","[","R","U","N","]">>

\* schema.some_model
ExampleModel ==
    <<"s","c","h","e","m","a",".","s","o","m","e","_","m","o","d","e","l">>

ParseLines ==
    { pre \o t \o g \o n \o o \o m \o kg \o kw \o tail :
        pre \in Prefixes, t \in Times, g \in Gaps, n \in Ns, o \in Ofs, m \in Ms,
        kg \in KeywordGaps, kw \in Keywords, tail \in Tails }
      \cup { ExampleLine, OkLine }

\* The lines of the log files of the consolidator's and of the filter's runs, and
\* the lines that removing the escapes of one of them gives.
FileLines == LogLines \cup FilterLines
EscapedLines ==
    { ColourLine12Escaped, WrappedLineEscaped, NestedEscapeLineEscaped,
      NestedEscapeLineEscapedTwice, CsiLineEscaped }

\* The sequences of at most n elements of S.
SeqsUpTo(S, n) == UNION {[1..k -> S] : k \in 0..n}

----------------------------------------------------------------------------
(* The methods on the lines of the runs.  A method reads nothing but the   *)
(* text it is given, which never changes, so its results for the lines of  *)
(* the log files are worked out once and looked up from then on; for any   *)
(* other text the method is evaluated as written.                          *)

\* The lines of the log files, and those lines with their escapes removed.
RunLines == FileLines \cup EscapedLines

IsKnown(raw) == raw \in RunLines

KnownObject[raw \in RunLines] == DBTModelStatus(raw)
KnownId[raw \in RunLines] == get_id([_raw |-> raw])
KnownModel[raw \in RunLines] == get_model([_raw |-> raw])
KnownRuntime[raw \in RunLines] == get_runtime([_raw |-> raw])
KnownModelLine[raw \in RunLines] == is_a_model_line(raw)
KnownEscaped[raw \in RunLines] == escape_ansi(raw)

new_DBTModelStatus(raw) == IF IsKnown(raw) THEN KnownObject[raw] ELSE DBTModelStatus(raw)
id_of(self) == IF IsKnown(self._raw) THEN KnownId[self._raw] ELSE get_id(self)
model_of(self) == IF IsKnown(self._raw) THEN KnownModel[self._raw] ELSE get_model(self)
runtime_of(self) == IF IsKnown(self._raw) THEN KnownRuntime[self._raw] ELSE get_runtime(self)
model_line(txt) == IF IsKnown(txt) THEN KnownModelLine[txt] ELSE is_a_model_line(txt)
escaped(line) == IF IsKnown(line) THEN KnownEscaped[line] ELSE escape_ansi(line)

----------------------------------------------------------------------------
(* Python's dict, list slices and sorted                                   *)

\* A dict is the sequence of its items [key, ref] in insertion order; ref is the
\* index in dbt_models_status of the object the item refers to.
dict_has(d, k) == \E i \in 1..Len(d) : d[i].key = k

\* d.get(k, None): the object the key refers to
dict_get(d, k) == d[CHOOSE i \in 1..Len(d) : d[i].key = k].ref

\* A dict that keeps what a key referred to first.
dict_set_first(d, k, ref) ==
    IF dict_has(d, k) THEN d ELSE Append(d, [key |-> k, ref |-> ref])

\* d[k] = ref: a new key goes last, a key already there keeps its place
dict_set(d, k, ref) ==
    IF dict_has(d, k)
    THEN [i \in 1..Len(d) |-> IF d[i].key = k THEN [key |-> k, ref |-> ref] ELSE d[i]]
    ELSE Append(d, [key |-> k, ref |-> ref])

\* The insertion of a sort that is not stable: a tuple goes before the tuples of
\* its own key.
insert_reverse_unstable(done, t) ==
    LET n == Cardinality({j \in 1..Len(done) : NumLess(t[3], done[j][3])})
    IN  SubSeq(done, 1, n) \o << t >> \o SubSeq(done, n + 1, Len(done))

\* sorted(tuples, key=lambda tup: tup[2], reverse=True): a stable sort by descending
\* key, done here by insertion: a tuple goes behind the tuples whose key is not
\* smaller than its own, which all came before it.
insert_reverse(done, t) ==
    LET n == Cardinality({j \in 1..Len(done) : NumLeq(t[3], done[j][3])})
    IN  SubSeq(done, 1, n) \o << t >> \o SubSeq(done, n + 1, Len(done))

RECURSIVE sorted_reverse(_)
sorted_reverse(tuples) ==
    IF tuples = <<>> THEN <<>>
    ELSE insert_reverse(sorted_reverse(SubSeq(tuples, 1, Len(tuples) - 1)),
                        tuples[Len(tuples)])

\* l[0:stop], the slice that keeps the first element
slice_from_0(l, stop) ==
    LET n == Len(l)
        hi == IF stop < 0 THEN (IF n + stop < 0 THEN 0 ELSE n + stop)
              ELSE IF stop > n THEN n ELSE stop
    IN  SubSeq(l, 1, hi)

\* l[1:stop], with Python's rule for a negative stop
slice_from_1(l, stop) ==
    LET n == Len(l)
        hi == IF stop < 0 THEN (IF n + stop < 0 THEN 0 ELSE n + stop)
              ELSE IF stop > n THEN n ELSE stop
    IN  SubSeq(l, 2, hi)

----------------------------------------------------------------------------
(* The class methods                                                       *)

\* read_log_models_lines_only: [escape_ansi(line) for line in open(file_name)]
escaped_lines(file) == [i \in 1..Len(file) |-> escaped(file[i])]

\* list(filter(lambda m: DBTModelStatus.is_a_model_line(m), lines))
model_lines_only(ls) == SelectSeq(ls, model_line)

\* read_log_as_dbt_models_status
read_log_as_dbt_models_status(ls) == [i \in 1..Len(ls) |-> new_DBTModelStatus(ls[i])]

\* The rule without its second if: ERROR after STARTED stays ERROR.
consolidated_status_pass_only(found_status, m_status) ==
    IF found_status = "STARTED" /\ m_status = "PASS" THEN "COMPLETED" ELSE m_status

\* The rule without its tests of the stored status: PASS and ERROR are upgraded
\* whatever came before.
consolidated_status_always(found_status, m_status) ==
    IF m_status = "PASS" THEN "COMPLETED"
    ELSE IF m_status = "ERROR" THEN "COMPLETED_ERROR" ELSE m_status

\* consolidate_dbt_models_status: the status of m once m_found, the object stored
\* for its id, has been looked at (the two ifs, one after the other)
consolidated_status(found_status, m_status) ==
    LET s1 == IF found_status = "STARTED" /\ m_status = "PASS"
              THEN "COMPLETED" ELSE m_status
    IN  IF found_status = "STARTED" /\ s1 = "ERROR" THEN "COMPLETED_ERROR" ELSE s1

\* top_n_runtime_dbt_models_status: the tuple of an object
status_tuple(v) ==
    << IF id_of(v) = None THEN 0 ELSE id_of(v).v,
       IF model_of(v) = None THEN << "?", "?", "?" >> ELSE model_of(v).v,
       IF runtime_of(v) = None THEN Zero ELSE runtime_of(v).v >>

\* __repr__: the four getters of an object, each called on its own
repr(v) ==
    [id |-> id_of(v), model |-> model_of(v), status |-> get_status(v),
     runtime |-> runtime_of(v)]

----------------------------------------------------------------------------
(* The runs                                                                *)

MaxLines == 3
MaxTopN == 4
MaxFilterLines == 2

Blank ==
    /\ pc = "start"
    /\ lines = <<>>
    /\ printable_file = <<>>
    /\ printable_lines = <<>>
    /\ dbt_models_status = <<>>
    /\ consolidated = <<>>
    /\ idx = 1
    /\ top_n = 0
    /\ ranked = <<>>
    /\ refiltered = <<>>
    /\ got = <<>>

Init ==
    /\ file_lines \in SeqsUpTo(LogLines, MaxLines)
    /\ Blank

\* read_log_models_lines_only(file_name): the lines of the file with their escape
\* sequences removed go to the printable_ file, the model lines among them are
\* returned.
ReadLogModelsLinesOnly ==
    /\ pc = "start"
    /\ lines' = escaped_lines(file_lines)
    /\ printable_file' = lines'
    /\ printable_lines' = model_lines_only(lines')
    /\ pc' = "filtered"
    /\ UNCHANGED <<file_lines, dbt_models_status, consolidated, idx, top_n, ranked,
                   refiltered, got>>

\* read_log_as_dbt_models_status(printable_lines), on the lines the filter returned
\* or on lines the caller read itself
ReadLogAsDbtModelsStatus ==
    /\ \/ /\ pc = "filtered"
          /\ UNCHANGED printable_lines
       \/ /\ pc = "start"
          /\ printable_lines' = file_lines
    /\ dbt_models_status' = read_log_as_dbt_models_status(printable_lines')
    /\ pc' = "parsed"
    /\ UNCHANGED <<file_lines, lines, printable_file, consolidated, idx, top_n, ranked,
                   refiltered, got>>

\* consolidate_dbt_models_status: one turn of the loop, for m = dbt_models_status[idx]
ConsolidateStep ==
    /\ pc = "parsed"
    /\ idx <= Len(dbt_models_status)
    /\ LET m == dbt_models_status[idx]
           k == id_of(m)
       IN  IF k = ValueError
           THEN /\ pc' = "ValueError"
                /\ UNCHANGED <<dbt_models_status, consolidated, idx>>
           ELSE /\ IF ~dict_has(consolidated, k)
                   THEN UNCHANGED dbt_models_status
                   ELSE LET m_found == dbt_models_status[dict_get(consolidated, k)]
                        IN  dbt_models_status' =
                                [dbt_models_status EXCEPT ![idx]._status =
                                    consolidated_status(get_status(m_found), m._status)]
                /\ consolidated' = dict_set(consolidated, k, idx)
                /\ idx' = idx + 1
                /\ UNCHANGED pc
    /\ UNCHANGED <<file_lines, lines, printable_file, printable_lines, top_n, ranked,
                   refiltered, got>>

\* consolidate_dbt_models_status: the loop has ended, the dict is returned
ConsolidateReturn ==
    /\ pc = "parsed"
    /\ idx > Len(dbt_models_status)
    /\ pc' = "consolidated"
    /\ UNCHANGED <<file_lines, lines, printable_file, printable_lines, dbt_models_status,
                   consolidated, idx, top_n, ranked, refiltered, got>>

\* top_n_runtime_dbt_models_status(consolidated, n)
TopNRuntime ==
    /\ pc = "consolidated"
    /\ \E n \in 0..MaxTopN :
        LET vs == [i \in 1..Len(consolidated) |-> dbt_models_status[consolidated[i].ref]]
        IN  /\ top_n' = n
            /\ IF \E i \in 1..Len(vs) : runtime_of(vs[i]) = ValueError
               THEN /\ pc' = "ValueError"
                    /\ UNCHANGED ranked
               ELSE /\ ranked' = slice_from_1(
                            sorted_reverse([i \in 1..Len(vs) |-> status_tuple(vs[i])]), n)
                    /\ pc' = "ranked"
    /\ UNCHANGED <<file_lines, lines, printable_file, printable_lines, dbt_models_status,
                   consolidated, idx, refiltered, got>>

\* read_log_models_lines_only, on a file that holds the lines it returned
Refilter ==
    /\ pc = "filtered"
    /\ refiltered' = model_lines_only(escaped_lines(printable_lines))
    /\ pc' = "refiltered"
    /\ UNCHANGED <<file_lines, lines, printable_file, printable_lines, dbt_models_status,
                   consolidated, idx, top_n, ranked, got>>

\* __repr__ of every object of the list: its id, model, status and runtime
CallGetters ==
    /\ pc = "parsed"
    /\ got' = [i \in 1..Len(dbt_models_status) |-> repr(dbt_models_status[i])]
    /\ pc' = "got"
    /\ UNCHANGED <<file_lines, lines, printable_file, printable_lines, dbt_models_status,
                   consolidated, idx, top_n, ranked, refiltered>>

Next ==
    \/ ReadLogModelsLinesOnly
    \/ ReadLogAsDbtModelsStatus
    \/ ConsolidateStep
    \/ ConsolidateReturn
    \/ TopNRuntime

Spec == Init /\ [][Next]_vars

\* The filter alone, on files of a few lines.
InitFilter ==
    /\ file_lines \in SeqsUpTo(FilterLines, MaxFilterLines)
    /\ Blank

NextFilter ==
    \/ ReadLogModelsLinesOnly
    \/ Refilter

SpecFilter == InitFilter /\ [][NextFilter]_vars

\* The parser alone, on files of one line.
InitParse ==
    /\ file_lines \in {<< l >> : l \in ParseLines}
    /\ Blank

NextParse ==
    \/ ReadLogModelsLinesOnly
    \/ ReadLogAsDbtModelsStatus
    \/ CallGetters

SpecParse == InitParse /\ [][NextParse]_vars

----------------------------------------------------------------------------
(* The consolidator and the ranker                                         *)

\* The objects of the list whose turn in the loop of the consolidator has passed.
Processed == 1..(idx - 1)

\* The objects before object i in the list that have the id of object i.
Earlier(i) ==
    {p \in 1..(i - 1) : id_of(dbt_models_status[p]) = id_of(dbt_models_status[i])}

\* The greatest element of a non-empty set of numbers.
Greatest(S) == CHOOSE x \in S : \A y \in S : y <= x
Least(S) == CHOOSE x \in S : \A y \in S : x <= y

\* C1: a turn of the consolidator's loop for an object that is not the first of
\* its id stores that object for the id, with status Completed when the object
\* stored until then is Started and the new one Pass, CompletedWithError when the
\* stored one is Started and the new one Error, and its own status otherwise.
C1_ConsolidationRule ==
    [][ (pc = "parsed" /\ idx' = idx + 1 /\ Earlier(idx) # {}) =>
            LET m     == dbt_models_status[idx]
                k     == id_of(m)
                found == dbt_models_status[dict_get(consolidated, k)]
            IN  /\ dict_has(consolidated, k)
                /\ dict_get(consolidated', k) = idx
                /\ dbt_models_status'[idx]._raw = m._raw
                /\ dbt_models_status'[idx]._status =
                      CASE found._status = "STARTED" /\ m._status = "PASS"
                              -> "COMPLETED"
                        [] found._status = "STARTED" /\ m._status = "ERROR"
                              -> "COMPLETED_ERROR"
                        [] OTHER -> m._status
      ]_vars

\* Started then Pass has given Completed, and a further Pass for the id has stayed Pass;
\* in another run Started then Error would give CompletedWithError.
C1_Witness ==
    /\ pc = "consolidated"
    /\ \E i, j \in 1..Len(dbt_models_status) :
          /\ i < j
          /\ i \in Earlier(j)
          /\ dbt_models_status[i]._status \in {"COMPLETED", "COMPLETED_ERROR"}
          /\ dbt_models_status[j]._status \in {"PASS", "ERROR"}

\* C2: the dict has one item for each id among the objects gone through, and the
\* item of an id refers to the last of those objects with that id, whose text is
\* that of the last line for the id.
C2_LastRecordPerId ==
    pc \in {"parsed", "consolidated", "ranked"} =>
        /\ \A a, b \in 1..Len(consolidated) :
              consolidated[a].key = consolidated[b].key => a = b
        /\ {consolidated[a].key : a \in 1..Len(consolidated)}
              = {id_of(dbt_models_status[i]) : i \in Processed}
        /\ \A a \in 1..Len(consolidated) :
              LET same == {i \in Processed :
                              id_of(dbt_models_status[i]) = consolidated[a].key}
              IN  /\ consolidated[a].ref = Greatest(same)
                  /\ dbt_models_status[consolidated[a].ref]._raw
                        = printable_lines[Greatest(same)]

\* The dict is returned; an id has two lines, with different texts, and another id one.
C2_Witness ==
    /\ pc = "consolidated"
    /\ Len(consolidated) >= 2
    /\ \E i, j \in 1..Len(dbt_models_status) :
          /\ i \in Earlier(j)
          /\ printable_lines[i] # printable_lines[j]

\* The tuple of the a-th item of the dict, and its place in the list of all the
\* tuples sorted by descending runtime (of two equal runtimes the item that is
\* first in the dict first).
TupleOf(a) == status_tuple(dbt_models_status[consolidated[a].ref])
RankOf(a) ==
    1 + Cardinality({b \in 1..Len(consolidated) :
                        \/ NumLess(TupleOf(a)[3], TupleOf(b)[3])
                        \/ b < a /\ TupleOf(b)[3] = TupleOf(a)[3]})

FirstWithId(k) ==
    Least({i \in 1..Len(dbt_models_status) : id_of(dbt_models_status[i]) = k})

\* C8: the list returned is in non-increasing order of runtime; its tuples are
\* those of items of the dict, with 0 for an absent id or runtime and "???" for
\* an absent model name; and tuples of equal runtime are in the order in which
\* their ids were first put into the dict.
C8_OrderOfRanked ==
    pc = "ranked" =>
        /\ \A j \in 1..(Len(ranked) - 1) : NumLeq(ranked[j + 1][3], ranked[j][3])
        /\ \E f \in [1..Len(ranked) -> 1..Len(consolidated)] :
              /\ \A j \in 1..Len(ranked) :
                    LET v == dbt_models_status[consolidated[f[j]].ref]
                    IN  /\ ranked[j][1] = IF id_of(v) = None THEN 0 ELSE id_of(v).v
                        /\ ranked[j][2] = IF model_of(v) = None
                                          THEN << "?", "?", "?" >> ELSE model_of(v).v
                        /\ ranked[j][3] = IF runtime_of(v) = None
                                          THEN Zero ELSE runtime_of(v).v
              /\ \A i, j \in 1..Len(ranked) :
                    (i < j /\ ranked[i][3] = ranked[j][3]) =>
                        FirstWithId(consolidated[f[i]].key)
                            < FirstWithId(consolidated[f[j]].key)

\* Two tuples of equal runtime are returned, one of them with no runtime and no
\* model name in its line.
C8_Witness ==
    /\ pc = "ranked"
    /\ Len(ranked) >= 2
    /\ ranked[1][3] = ranked[2][3]
    /\ \E j \in 1..Len(ranked) : ranked[j][2] = << "?", "?", "?" >>
    /\ \E a \in 1..Len(consolidated) : runtime_of(dbt_models_status[consolidated[a].ref]) = None

\* C10: an object has the status its constructor gave it, unless its turn in the
\* consolidator has passed, the object before it with its id is Started, and it
\* went from Pass to Completed or from Error to CompletedWithError.
C10_StatusFrame ==
    \A i \in 1..Len(dbt_models_status) :
        LET made == new_DBTModelStatus(dbt_models_status[i]._raw)._status
            now  == dbt_models_status[i]._status
        IN  now # made =>
                /\ pc \in {"parsed", "consolidated", "ranked", "ValueError"}
                /\ i \in Processed
                /\ Earlier(i) # {}
                /\ dbt_models_status[Greatest(Earlier(i))]._status = "STARTED"
                /\ \/ made = "PASS" /\ now = "COMPLETED"
                   \/ made = "ERROR" /\ now = "COMPLETED_ERROR"

\* An OK line has come before the START line of its id: it is still Pass at the
\* end, and the START line is still Started.
C10_Witness ==
    /\ pc = "consolidated"
    /\ \E i, j \in 1..Len(dbt_models_status) :
          /\ i \in Earlier(j)
          /\ dbt_models_status[i]._status = "PASS"
          /\ dbt_models_status[j]._status = "STARTED"

----------------------------------------------------------------------------
(* The line filter and the line parser                                     *)

\* Positions count the characters read: position i is the place after s[i].

\* The word w stands in s right after position i.
WordAt(s, i, w) ==
    /\ i + Len(w) <= Len(s)
    /\ \A k \in 1..Len(w) : s[i + k] = w[k]

\* The first position from i on that a character outside cls follows, or the end.
RunStop(s, i, cls) ==
    CHOOSE j \in i..Len(s) :
        /\ \A k \in (i + 1)..j : s[k] \in cls
        /\ j = Len(s) \/ s[j + 1] \notin cls

\* The positions reached from one of From by reading characters of cls, as many
\* as Lens allows.
Run(s, From, cls, Lens) ==
    UNION { {j \in i..RunStop(s, i, cls) : j - i \in Lens} : i \in From }

\* The positions reached from one of From by reading the word w.
Lit(s, From, w) == {i + Len(w) : i \in {j \in From : WordAt(s, j, w)}}

\* The positions reached from p by reading digits, a colon, digits, a colon and
\* digits, each run of digits of a length in Lens.
TimeEnds(s, p, Lens) ==
    Run(s, Lit(s, Run(s, Lit(s, Run(s, {p}, Digit, Lens), << ":" >>),
                      Digit, Lens), << ":" >>), Digit, Lens)

\* The positions reached from p by reading the time, white space, digits, one
\* white space and "of", any of the runs possibly empty.
OfEnds(s, p) ==
    Lit(s, Run(s, Run(s, Run(s, TimeEnds(s, p, Nat), Space, Nat), Digit, Nat),
               Space, {1}), << "o", "f" >>)

\* the line begins with <digits>:<digits>:<digits> <digits> of, any of the runs of
\* digits possibly empty, one white space before "of"
LooseShape(s) == OfEnds(s, 0) # {}

\* the line begins with HH:MM:SS <int> of <int>: one or two digits for the hours,
\* the minutes and the seconds, one digit at least for each of the two numbers,
\* white space of any length between the parts
StrictShape(s) ==
    Run(s, Run(s, Lit(s, Run(s, Run(s, Run(s, TimeEnds(s, 0, {1, 2}),
                Space, Nat), Digit, Nat \ {0}), Space, Nat), << "o", "f" >>),
            Space, Nat), Digit, Nat \ {0}) # {}

C9_FilterIdempotent ==
    pc = "refiltered" => refiltered = printable_lines

\* The three keywords, and the status each stands for.
KeywordStatus ==
    { [word |-> << "S", "T", "A", "R", "T" >>, status |-> "STARTED"],
      [word |-> << "O", "K" >>, status |-> "PASS"],
      [word |-> << "E", "R", "R", "O", "R" >>, status |-> "ERROR"] }

\* The positions reached from p by reading the time, N, "of", white space and
\* digits (M).
TokenEnds(s, p) == Run(s, Run(s, OfEnds(s, p), Space, Nat), Digit, Nat)

\* The keyword, if any, that follows at once (white space or nothing between)
\* a time and N of M read from p.
KeywordsAt(s, p) ==
    {k \in KeywordStatus : Lit(s, Run(s, TokenEnds(s, p), Space, Nat), k.word) # {}}

\* The places of s from which a time, N of M and at once a keyword are read.
KeywordTokens(s) == {p \in 0..Len(s) : KeywordsAt(s, p) # {}}

\* The status of the keyword that follows the first of these.
StatusByFirstToken(s) ==
    IF KeywordTokens(s) = {} THEN "UNKNOWN"
    ELSE (CHOOSE k \in KeywordsAt(s, Least(KeywordTokens(s))) : TRUE).status

\* The keyword stands somewhere in s after a time and N of M.
KeywordAfterToken(s, word) ==
    \E p \in 0..Len(s) :
        \E h \in TokenEnds(s, p) :
            \E q \in h..Len(s) : WordAt(s, q, word)

\* C6, as amended: an object made of a line is Started, Pass or Error when, at
\* the first place of the line where a time and N of M are followed at once
\* (white space or nothing between) by START, OK or ERROR, the keyword is START,
\* OK or ERROR; it is Unknown when the line has no such place.
C6_StatusByKeyword ==
    pc \in {"parsed", "got"} =>
        \A i \in 1..Len(dbt_models_status) :
            dbt_models_status[i]._status = StatusByFirstToken(dbt_models_status[i]._raw)

\* C6, as claimed: the status is that of the keyword the line contains after the
\* N of M token, Unknown when it contains none.
C6_StatusByKeywordAnywhere ==
    pc \in {"parsed", "got"} =>
        \A i \in 1..Len(dbt_models_status) :
            LET raw == dbt_models_status[i]._raw
                st  == dbt_models_status[i]._status
            IN  /\ \A k \in KeywordStatus :
                      KeywordAfterToken(raw, k.word) => st = k.status
                /\ (\A k \in KeywordStatus : ~KeywordAfterToken(raw, k.word))
                      => st = "UNKNOWN"

\* A line whose time does not begin the line, with OK right after N of M: Pass.
C6_Witness ==
    /\ pc = "got"
    /\ Len(got) = 1
    /\ got[1].status = "PASS"
    /\ KeywordTokens(dbt_models_status[1]._raw) # {}
    /\ Least(KeywordTokens(dbt_models_status[1]._raw)) > 0

\* C7: the START example line gives id 5, Started, the model name
\* schema.some_model and no runtime; and the model name is absent exactly when no
\* keyword made the status.
C7_ExampleAndModelName ==
    pc = "got" =>
        \A i \in 1..Len(got) :
            /\ dbt_models_status[i]._raw = ExampleLine =>
                  got[i] = [id |-> Val(5), model |-> Val(ExampleModel),
                            status |-> "STARTED", runtime |-> None]
            /\ got[i].model = None <=> got[i].status = "UNKNOWN"

\* C4: none of the four getters raises on a line the filter keeps.
C4_GettersNeverRaise ==
    pc = "got" =>
        \A i \in 1..Len(got) :
            model_line(dbt_models_status[i]._raw) =>
                /\ got[i].id # ValueError
                /\ got[i].model # ValueError
                /\ got[i].runtime # ValueError
                /\ got[i].status \in {"UNKNOWN", "STARTED", "PASS", "ERROR"}

====
